---- MODULE Spec2Model ----
(***************************************************************************)
(* Model of the `#[op]` binding generator (src/ops/lib.rs) and of the      *)
(* generic entry points it generates.                                      *)
(*                                                                         *)
(* A type is the sequence of tokens `tokens(ty)` prints, separated by      *)
(* blanks in the source's string form: "& mut OpState" is                  *)
(* <<"&", "mut", "OpState">>.  A bracketed group such as [u8] prints       *)
(* without inner blanks and is one token.  The string tests of the source  *)
(* (==, starts_with, ends_with, contains, find, the anchored regexes) are  *)
(* the same tests on token sequences.                                      *)
(*                                                                         *)
(* Generated code is a sequence of instructions (one per quote! block);    *)
(* ExecBody runs it the way the generated Rust runs: top to bottom, with   *)
(* `return` ending the entry point.                                        *)
(***************************************************************************)
EXTENDS Integers, Sequences, FiniteSets, TLC

VARIABLES
  func,       \* the annotated function handed to #[op] (generation time)
  generated,  \* <<what Op::gen produced for it>>, <<>> before it ran
  op_state,   \* ctx.state: last_fast_op_error, tracker, get_error_class_fn
  pending,    \* futures handed to queue_async_op and not yet completed
  delivered,  \* completion triples (promise_id, op_id, result), in order
  last,       \* the most recent entry-point invocation and what it did
  message_rx, \* REPL bridge: messages in the channel(1) of rustyline_channel
  response_rx,\* REPL bridge: responses in the unbounded channel
  sender,     \* REPL bridge: the thread calling RustylineSyncMessageSender
  handler     \* REPL bridge: the RustylineSyncMessageHandler and its owner

opVars == <<func, generated, op_state, pending, delivered, last>>

replVars == <<message_rx, response_rx, sender, handler>>

vars == <<opVars, replVars>>

None == "None"

\* ------------------------------------------------------------------------
\* rustyline_channel() (src/cli/tools/repl/channel.rs 22-37): both channels
\* empty, no sender call in progress, the handler alive with no message
\* ------------------------------------------------------------------------

NoMessage == [kind |-> "none", id |-> 0]

SenderIdle ==
  [pc |-> "idle", calls |-> 0, req |-> NoMessage,
   ret |-> [how |-> "none", kind |-> "none", id |-> 0, value |-> "none"]]

HandlerIdle == [alive |-> TRUE, current |-> NoMessage]

rustyline_channel ==
  /\ message_rx = <<>>
  /\ response_rx = <<>>
  /\ sender = SenderIdle
  /\ handler = HandlerIdle

\* ------------------------------------------------------------------------
\* Token-string helpers
\* ------------------------------------------------------------------------

\* s.starts_with(p)
StartsWith(s, p) ==
  /\ Len(p) <= Len(s)
  /\ \A i \in 1..Len(p) : s[i] = p[i]

\* s.ends_with(p)
EndsWith(s, p) ==
  /\ Len(p) <= Len(s)
  /\ \A i \in 1..Len(p) : s[Len(s) - Len(p) + i] = p[i]

\* p occurs in s starting at token i
OccursAt(s, p, i) ==
  /\ i >= 1
  /\ i + Len(p) - 1 <= Len(s)
  /\ \A j \in 1..Len(p) : s[i + j - 1] = p[j]

\* s.contains(p)
Contains(s, p) == \E i \in 1..Len(s) : OccursAt(s, p, i)

\* s.find(p): index of the first occurrence, 0 when there is none
Find(s, p) ==
  IF Contains(s, p)
  THEN CHOOSE i \in 1..Len(s) :
         OccursAt(s, p, i) /\ \A k \in 1..(i - 1) : ~OccursAt(s, p, k)
  ELSE 0

\* s.trim_start_matches("-> ")
TrimArrow(s) == IF Len(s) > 0 /\ s[1] = "->" THEN Tail(s) ELSE s

\* A regex that begins with ": " matches the last character of a token:
\* both ":" and "::" end in a colon.
EndsInColon(tok) == tok \in {":", "::"}

\* Regex  `: <body>$`  on a token string: the string ends with body and the
\* token before it ends in a colon.
MatchColonSuffix(s, body) ==
  /\ Len(s) > Len(body)
  /\ EndsWith(s, body)
  /\ EndsInColon(s[Len(s) - Len(body)])

\* tokens(arg) of a typed FnArg: `pat : ty`
ArgTokens(arg) == <<arg.name, ":">> \o arg.ty

\* ------------------------------------------------------------------------
\* Type-shape predicates (src/ops/lib.rs 632-759)
\* ------------------------------------------------------------------------

is_void(ty) == Len(ty) = 0

is_result(ty) ==
  \/ StartsWith(TrimArrow(ty), <<"Result", "<">>)
  \/ LET idx == Find(ty, <<"::", "Result", "<">>)
     IN  /\ idx > 0
         /\ \A k \in 1..(idx - 1) : ty[k] # "<"

\* Some(false) for String, Some(true) for &str, None otherwise
is_string(ty) ==
  IF ty = <<"String">> THEN "SomeFalse"
  ELSE IF ty = <<"&", "str">> THEN "SomeTrue"
  ELSE None

is_option_string(ty) == ty = <<"Option", "<", "String", ">">>

is_cow_str(ty) ==
  StartsWith(ty, <<"Cow", "<">>) /\ EndsWith(ty, <<"str", ">">>)

is_u8_slice(ty) == ty = <<"&", "[u8]">>

is_u8_slice_mut(ty) == ty = <<"&", "mut", "[u8]">>

is_u32_slice_mut(ty) == ty = <<"&", "mut", "[u32]">>

is_ref_slice(ty) ==
  IF is_u8_slice(ty) THEN "U8"
  ELSE IF is_u8_slice_mut(ty) THEN "U8Mut"
  ELSE IF is_u32_slice_mut(ty) THEN "U32Mut"
  ELSE None

is_ptr_u8(ty) == ty = <<"*", "const", "u8">>

is_optional_fast_callback_option(ty) ==
  Contains(ty, <<"Option", "<", "&", "mut", "FastApiCallbackOptions">>)

is_optional_wasm_memory(ty) ==
  Contains(ty, <<"Option", "<", "&", "mut", "[u8]">>)

is_resource_id(toks) ==
  \/ MatchColonSuffix(toks, <<"ResourceId">>)
  \/ MatchColonSuffix(toks, <<"deno_core", "::", "ResourceId">>)

is_u32_rv(ty) ==
  \/ \E s \in {"u32", "u8", "u16"} : ty = <<s>>
  \/ is_resource_id(ty)

is_u32_rv_result(ty) ==
  /\ is_result(ty)
  /\ \/ Contains(ty, <<"Result", "<", "u32">>)
     \/ Contains(ty, <<"Result", "<", "u8">>)
     \/ Contains(ty, <<"Result", "<", "u16">>)
     \/ is_resource_id(ty)

is_unit_result(ty) ==
  is_result(ty) /\ Contains(ty, <<"Result", "<", "()">>)

is_mut_ref_opstate(toks) ==
  \/ MatchColonSuffix(toks, <<"&", "mut", "OpState">>)
  \/ MatchColonSuffix(toks, <<"&", "mut", "deno_core", "::", "OpState">>)

is_rc_refcell_opstate(toks) ==
  \/ MatchColonSuffix(toks, <<"Rc", "<", "RefCell", "<", "OpState", ">", ">">>)
  \/ MatchColonSuffix(toks,
       <<"Rc", "<", "RefCell", "<", "deno_core", "::", "OpState", ">", ">">>)

\* `\w+` of the lifetime: any single lifetime token
IsLifetime(tok) == tok \in {"'scope", "'a", "'s"}

is_handle_scope(toks) ==
  \/ MatchColonSuffix(toks, <<"&", "mut", "v8", "::", "HandleScope">>)
  \/ MatchColonSuffix(toks, <<"&", "mut", "deno_core", "::", "v8", "::", "HandleScope">>)
  \/ /\ Len(toks) >= 3
     /\ toks[Len(toks)] = ">"
     /\ IsLifetime(toks[Len(toks) - 1])
     /\ toks[Len(toks) - 2] = "<"
     /\ LET head == SubSeq(toks, 1, Len(toks) - 3)
        IN  \/ MatchColonSuffix(head, <<"&", "mut", "v8", "::", "HandleScope">>)
            \/ MatchColonSuffix(head,
                 <<"&", "mut", "deno_core", "::", "v8", "::", "HandleScope">>)

is_future(ty) == Contains(ty, <<"impl", "Future", "<", "Output", "=">>)


\* ------------------------------------------------------------------------
\* Special arguments (src/ops/lib.rs 277-303)
\* ------------------------------------------------------------------------

scope_arg(arg) ==
  IF is_handle_scope(ArgTokens(arg)) THEN "scope" ELSE None

opstate_arg(arg) ==
  IF is_rc_refcell_opstate(ArgTokens(arg)) THEN "ctx.state.clone()"
  ELSE IF is_mut_ref_opstate(ArgTokens(arg)) THEN "borrow_mut(ctx.state)"
  ELSE None

rc_refcell_opstate_arg(arg) ==
  IF is_rc_refcell_opstate(ArgTokens(arg)) THEN "ctx.state.clone()"
  ELSE IF is_mut_ref_opstate(ArgTokens(arg)) THEN "compile_error"
  ELSE None

\* (if is_v8 { scope_arg(a) } else { None }).or_else(|| opstate_arg(a))
SpecialSync(arg, is_v8) ==
  IF is_v8 /\ scope_arg(arg) # None THEN scope_arg(arg) ELSE opstate_arg(arg)

\* (if is_v8 { scope_arg(a) } else { None }).or_else(|| rc_refcell_opstate_arg(a))
SpecialAsync(arg, is_v8) ==
  IF is_v8 /\ scope_arg(arg) # None THEN scope_arg(arg)
  ELSE rc_refcell_opstate_arg(arg)

\* Variant of MapWhileSync: filter_map in place of map_while, which takes
\* the special parameters wherever they are declared
RECURSIVE FilterMapSync(_, _)
FilterMapSync(inputs, is_v8) ==
  IF inputs = <<>> THEN <<>>
  ELSE (IF SpecialSync(Head(inputs), is_v8) = None THEN <<>>
        ELSE <<SpecialSync(Head(inputs), is_v8)>>)
         \o FilterMapSync(Tail(inputs), is_v8)

\* inputs.iter().map_while(f).collect(): the leading run on which f is Some
RECURSIVE MapWhileSync(_, _)
MapWhileSync(inputs, is_v8) ==
  IF inputs = <<>> \/ SpecialSync(Head(inputs), is_v8) = None THEN <<>>
  ELSE <<SpecialSync(Head(inputs), is_v8)>> \o MapWhileSync(Tail(inputs), is_v8)

RECURSIVE MapWhileAsync(_, _)
MapWhileAsync(inputs, is_v8) ==
  IF inputs = <<>> \/ SpecialAsync(Head(inputs), is_v8) = None THEN <<>>
  ELSE <<SpecialAsync(Head(inputs), is_v8)>> \o MapWhileAsync(Tail(inputs), is_v8)

\* ------------------------------------------------------------------------
\* Generated instructions
\* ------------------------------------------------------------------------

\* One generated statement block.  kind/idx/flag are "-"/0/FALSE when the
\* block has no such parameter.
Instr(op, kind, idx, flag) ==
  [op |-> op, kind |-> kind, idx |-> idx, flag |-> flag, ty |-> <<>>]

\* A decode block: `let arg_i: ty = ...`, the type fixed by the call it feeds
Decode(kind, idx, flag, ty) ==
  [op |-> "decode", kind |-> kind, idx |-> idx, flag |-> flag, ty |-> ty]

\* ------------------------------------------------------------------------
\* Argument code generation (src/ops/lib.rs 368-484)
\* ------------------------------------------------------------------------

\* Variant of codegen_arg: the wildcard pattern tested after the string types
codegen_arg_wild_late(arg, idx) ==
  IF is_optional_fast_callback_option(arg.ty) \/ is_optional_wasm_memory(arg.ty)
  THEN Decode("none", idx, FALSE, arg.ty)
  ELSE IF is_string(arg.ty) # None
  THEN Decode("string", idx, is_string(arg.ty) = "SomeTrue", arg.ty)
  ELSE IF arg.pat = "Wild"
  THEN Decode("unit", idx, FALSE, arg.ty)
  ELSE IF is_cow_str(arg.ty)
  THEN Decode("cow_str", idx, FALSE, arg.ty)
  ELSE IF is_option_string(arg.ty)
  THEN Decode("option_string", idx, FALSE, arg.ty)
  ELSE IF is_ref_slice(arg.ty) = "U32Mut"
  THEN Decode("u32_mut_slice", idx, FALSE, arg.ty)
  ELSE IF is_ref_slice(arg.ty) # None
  THEN Decode("u8_slice", idx, FALSE, arg.ty)
  ELSE IF is_ptr_u8(arg.ty)
  THEN Decode("u8_ptr", idx, FALSE, arg.ty)
  ELSE Decode("serde_v8", idx, FALSE, arg.ty)

codegen_arg(arg, idx) ==
  IF is_optional_fast_callback_option(arg.ty) \/ is_optional_wasm_memory(arg.ty)
  THEN Decode("none", idx, FALSE, arg.ty)
  ELSE IF arg.pat = "Wild"
  THEN Decode("unit", idx, FALSE, arg.ty)
  ELSE IF is_string(arg.ty) # None
  THEN Decode("string", idx, is_string(arg.ty) = "SomeTrue", arg.ty)
  ELSE IF is_cow_str(arg.ty)
  THEN Decode("cow_str", idx, FALSE, arg.ty)
  ELSE IF is_option_string(arg.ty)
  THEN Decode("option_string", idx, FALSE, arg.ty)
  ELSE IF is_ref_slice(arg.ty) = "U32Mut"
  THEN Decode("u32_mut_slice", idx, FALSE, arg.ty)
  ELSE IF is_ref_slice(arg.ty) # None
  THEN Decode("u8_slice", idx, FALSE, arg.ty)
  ELSE IF is_ptr_u8(arg.ty)
  THEN Decode("u8_ptr", idx, FALSE, arg.ty)
  ELSE Decode("serde_v8", idx, FALSE, arg.ty)

\* Variant of codegen_args: the count taken before the special arguments
\* are skipped
codegen_args_count_all(f, rust_i0, v8_i0) ==
  LET n == IF Len(f.inputs) > rust_i0 THEN Len(f.inputs) - rust_i0 ELSE 0
  IN  [decls |-> [i \in 1..n |-> codegen_arg(f.inputs[rust_i0 + i], v8_i0 + (i - 1))],
       argc  |-> Len(f.inputs)]

\* Variant of codegen_args: the v8 index taken without the first index v8_i0
codegen_args_no_shift(f, rust_i0, v8_i0) ==
  LET n == IF Len(f.inputs) > rust_i0 THEN Len(f.inputs) - rust_i0 ELSE 0
  IN  [decls |-> [i \in 1..n |-> codegen_arg(f.inputs[rust_i0 + i], i - 1)],
       argc  |-> n]

\* (decls, v8 argument count); ident_seq is arg_0 .. arg_{argc-1}
codegen_args(f, rust_i0, v8_i0) ==
  LET n == IF Len(f.inputs) > rust_i0 THEN Len(f.inputs) - rust_i0 ELSE 0
  IN  [decls |-> [i \in 1..n |-> codegen_arg(f.inputs[rust_i0 + i], v8_i0 + (i - 1))],
       argc  |-> n]

\* ------------------------------------------------------------------------
\* Sync return code generation (src/ops/lib.rs 582-630)
\* ------------------------------------------------------------------------

\* kind: what the Ok value does; flag: wrapped in `match result { Ok, Err }`
codegen_sync_ret(output) ==
  IF is_void(output) THEN <<>>
  ELSE IF is_u32_rv(output) THEN <<Instr("ret", "set_uint32", 0, FALSE)>>
  ELSE LET ok_block ==
             IF is_unit_result(output) THEN "nothing"
             ELSE IF is_u32_rv_result(output) THEN "set_uint32"
             ELSE "to_v8"
       IN  IF ~is_result(output)
           THEN <<Instr("ret", ok_block, 0, FALSE)>>
           ELSE <<Instr("ret", ok_block, 0, TRUE)>>

\* ------------------------------------------------------------------------
\* Entry-point code generation (src/ops/lib.rs 183-275, 306-363)
\* ------------------------------------------------------------------------

\* Variant of codegen_v8_sync: the telemetry call emitted after the return
\* block
codegen_v8_sync_track_last(f, margs, has_fallible_fast_call) ==
  LET special_args == MapWhileSync(f.inputs, margs.is_v8)
      rust_i0 == Len(special_args)
      a == codegen_args(f, rust_i0, 0)
      ret == codegen_sync_ret(f.output)
      fast_error_handler ==
        IF has_fallible_fast_call
        THEN <<Instr("fast_error_handler", "-", 0, FALSE)>>
        ELSE <<>>
  IN  [body |-> fast_error_handler
                \o a.decls
                \o <<Instr("call", "-", 0, FALSE)>>
                \o ret
                \o <<Instr("track_sync", "-", 0, FALSE)>>,
       args_head |-> special_args,
       argc |-> a.argc]

codegen_v8_sync(f, margs, has_fallible_fast_call) ==
  LET special_args == MapWhileSync(f.inputs, margs.is_v8)
      rust_i0 == Len(special_args)
      a == codegen_args(f, rust_i0, 0)
      ret == codegen_sync_ret(f.output)
      fast_error_handler ==
        IF has_fallible_fast_call
        THEN <<Instr("fast_error_handler", "-", 0, FALSE)>>
        ELSE <<>>
  IN  [body |-> fast_error_handler
                \o a.decls
                \o <<Instr("call", "-", 0, FALSE)>>
                \o <<Instr("track_sync", "-", 0, FALSE)>>
                \o ret,
       args_head |-> special_args,
       argc |-> a.argc]

\* The async block handed to queue_async_op.  call_inside: the native
\* function is called (and awaited) inside the block.  wrapper: what
\* result_wrapper does with the value.
AsyncBlock(f, asyncness) ==
  [call_inside |-> asyncness,
   wrapper |-> IF is_result(f.output)
               THEN (IF ~asyncness THEN "match_early_err" ELSE "none")
               ELSE "ok_wrap"]

\* Variant of codegen_v8_async: the telemetry call emitted after pre_result
codegen_v8_async_track_late(f, margs, asyncness, deferred) ==
  LET special_args == MapWhileAsync(f.inputs, margs.is_v8)
      rust_i0 == Len(special_args)
      a == codegen_args(f, rust_i0, 1)
      pre_result ==
        IF asyncness THEN <<>> ELSE <<Instr("call", "-", 0, FALSE)>>
  IN  [body |-> <<Instr("promise_id", "-", 0, FALSE)>>
                \o a.decls
                \o pre_result
                \o <<Instr("track_async", "-", 0, FALSE)>>
                \o <<Instr("queue_async_op", "-", 0, deferred)>>,
       args_head |-> special_args,
       argc |-> a.argc]

codegen_v8_async(f, margs, asyncness, deferred) ==
  LET special_args == MapWhileAsync(f.inputs, margs.is_v8)
      rust_i0 == Len(special_args)
      a == codegen_args(f, rust_i0, 1)
      pre_result ==
        IF asyncness THEN <<>> ELSE <<Instr("call", "-", 0, FALSE)>>
  IN  [body |-> <<Instr("promise_id", "-", 0, FALSE)>>
                \o a.decls
                \o <<Instr("track_async", "-", 0, FALSE)>>
                \o pre_result
                \o <<Instr("queue_async_op", "-", 0, deferred)>>,
       args_head |-> special_args,
       argc |-> a.argc]

\* ------------------------------------------------------------------------
\* Fast-path optimizer and generator.  Their modules (optimizer, fast_call)
\* are declared at src/ops/lib.rs 17-18 and are not part of the sources at
\* hand: modelled from the specification, sections 4.2 and 4.3.
\* ------------------------------------------------------------------------

\* The type's path has more than one segment
IsMultiSegment(ty) == \E i \in 1..Len(ty) : ty[i] = "::"

\* Kinds with no fast-path form (section 4.2: copy-on-write and optional
\* strings need an allocation)
FastUnsupported(ty) == is_cow_str(ty) \/ is_option_string(ty)

\* The first parameter, in declared order, that makes the analysis bail
RECURSIVE AnalyzeParams(_)
AnalyzeParams(inputs) ==
  IF inputs = <<>> THEN "Ok"
  ELSE IF IsMultiSegment(Head(inputs).ty) THEN "MustBeSingleSegment"
  ELSE IF FastUnsupported(Head(inputs).ty) THEN "FastUnsupportedParamType"
  ELSE AnalyzeParams(Tail(inputs))

\* optimizer.analyze(op): the outcome and the OptimizerState it leaves.
\* The analysis assumes compatibility until a rule bails; the caller turns
\* the flag off on a bailout.
Analyze(op) ==
  [result |-> AnalyzeParams(op.inputs),
   fast_compatible |-> TRUE,
   returns_result |-> is_result(op.output)]

\* fast_call::generate: a fast entry exactly for an activated plan
FastGenerate(optimizer) ==
  [decl |-> IF optimizer.fast_compatible THEN "Some(fast_fn)" ELSE None,
   active |-> optimizer.fast_compatible]

\* ------------------------------------------------------------------------
\* Op::new and Op::gen (src/ops/lib.rs 45-172)
\* ------------------------------------------------------------------------

\* Op::new: is_async = `async fn` or returns a Future
OpIsAsync(item) == item.asyncness \/ is_future(item.output)

\* Variant of GenOptimizer: the bailout arms left out
GenOptimizerNoReset(op) == Analyze(op)

\* The match on the analysis result: a bailout clears fast_compatible
GenOptimizer(op) ==
  LET o == Analyze(op)
  IN  IF o.result \in {"MustBeSingleSegment", "FastUnsupportedParamType"}
      THEN [o EXCEPT !.fast_compatible = FALSE]
      ELSE o

\* Op::gen: the OpDecl of decl() and the body of v8_func
Gen(op) ==
  LET optimizer == GenOptimizer(op)
      fast == FastGenerate(optimizer)
      has_fallible_fast_call == fast.active /\ optimizer.returns_result
      is_async == OpIsAsync(op)
      g == IF is_async
           THEN codegen_v8_async(op, op.attrs, op.asyncness, op.attrs.deferred)
           ELSE codegen_v8_sync(op, op.attrs, has_fallible_fast_call)
  IN  [name |-> op.name,
       enabled |-> TRUE,
       fast_fn |-> fast.decl,
       is_async |-> is_async,
       is_unstable |-> op.attrs.is_unstable,
       is_v8 |-> op.attrs.is_v8,
       argc |-> g.argc,
       v8_func |-> g.body,
       args_head |-> g.args_head,
       bailout |-> optimizer.result,
       fast_compatible |-> optimizer.fast_compatible,
       returns_result |-> optimizer.returns_result,
       async_block |-> AsyncBlock(op, op.asyncness)]

\* ------------------------------------------------------------------------
\* Functions handed to the generator
\* ------------------------------------------------------------------------

Param(name, ty) == [name |-> name, pat |-> "Ident", ty |-> ty]

WildParam(ty) == [name |-> "_", pat |-> "Wild", ty |-> ty]

Attrs(is_v8, is_unstable, deferred) ==
  [is_v8 |-> is_v8, is_unstable |-> is_unstable, deferred |-> deferred]

ItemFn(name, inputs, output, asyncness, attrs) ==
  [name |-> name, inputs |-> inputs, output |-> output,
   asyncness |-> asyncness, attrs |-> attrs]

T_u32 == <<"u32">>
T_String == <<"String">>
T_str == <<"&", "str">>
T_Cow == <<"Cow", "<", "'_", ",", "str", ">">>
T_OptString == <<"Option", "<", "String", ">">>
T_u8_slice == <<"&", "[u8]">>
T_u8_slice_mut == <<"&", "mut", "[u8]">>
T_u32_slice_mut == <<"&", "mut", "[u32]">>
T_ptr_u8 == <<"*", "const", "u8">>
T_OpState == <<"&", "mut", "OpState">>
T_RcOpState == <<"Rc", "<", "RefCell", "<", "OpState", ">", ">">>
T_Scope == <<"&", "mut", "v8", "::", "HandleScope">>
T_BigInt == <<"serde_v8", "::", "BigInt">>
T_OptWasm == <<"Option", "<", "&", "mut", "[u8]", ">">>
T_OptFast == <<"Option", "<", "&", "mut", "FastApiCallbackOptions", ">">>

R_void == <<>>
R_u32 == <<"->", "u32">>
R_u8 == <<"->", "u8">>
R_String == <<"->", "String">>
R_ResourceId == <<"->", "ResourceId">>
R_CoreResourceId == <<"->", "deno_core", "::", "ResourceId">>
R_Result_unit == <<"->", "Result", "<", "()", ",", "AnyError", ">">>
R_Result_u32 == <<"->", "Result", "<", "u32", ",", "AnyError", ">">>
R_Result_ResourceId == <<"->", "Result", "<", "ResourceId", ",", "AnyError", ">">>
R_Result_String == <<"->", "Result", "<", "String", ",", "AnyError", ">">>
R_IoResult_String == <<"->", "io", "::", "Result", "<", "String", ">">>
R_Future == <<"->", "impl", "Future", "<", "Output", "=", "u32", ">">>
R_Result_Future ==
  <<"->", "Result", "<", "impl", "Future", "<", "Output", "=", "Result", "<",
    "bool", ",", "AnyError", ">", ">", "+", "'static", ",", "AnyError", ">">>

\* ------------------------------------------------------------------------
\* Runtime values
\* ------------------------------------------------------------------------

\* A v8 value as the entry points see it: the kind the Local::try_from casts
\* test, and the number of an integer.
V8(kind, val) == [kind |-> kind, val |-> val]

Undefined == V8("undefined", 0)

\* An ArrayBuffer: byte_length() is size, data() is Some iff data
Buf(size, data) ==
  [kind |-> "ArrayBuffer", val |-> 0, size |-> size, offset |-> 0,
   len |-> size, data |-> data]

\* A typed array or DataView (kind "ArrayBufferView", or "Uint32Array" which
\* is one too): byte_offset() is offset, byte_length() is len, buffer(scope)
\* is an ArrayBuffer of `size` bytes whose data() is Some iff data.
View(kind, size, offset, len, data) ==
  [kind |-> kind, val |-> 0, size |-> size, offset |-> offset,
   len |-> len, data |-> data]

\* args.get(i): undefined past the end
ArgGet(args, i) == IF i < Len(args) THEN args[i + 1] ELSE Undefined

NoThrow == [kind |-> "none", msg |-> "-", pos |-> 0, err |-> "-", class |-> "-"]

\* _ops::throw_type_error(scope, msg) with the position the message formats
TypeError(msg, pos) ==
  [kind |-> "TypeError", msg |-> msg, pos |-> pos, err |-> "-", class |-> "-"]

\* scope.throw_exception(to_v8_error(scope, get_error_class_fn, &err))
Exception(err, get_class) ==
  [kind |-> "Exception", msg |-> "-", pos |-> 0, err |-> err, class |-> get_class]

NoResult == [tag |-> "none", err |-> "-"]
Ok == [tag |-> "Ok", err |-> "-"]
Err(e) == [tag |-> "Err", err |-> e]

\* _ops::to_op_result(get_class, result)
to_op_result(get_class, result) ==
  IF result.tag = "Err"
  THEN [tag |-> "Err", err |-> result.err, class |-> get_class]
  ELSE [tag |-> "Ok", err |-> "-", class |-> "-"]

Ev(name, idx) == [ev |-> name, idx |-> idx]

\* serde_v8::from_v8::<T>(scope, value): the marshaling library, outside
\* the sources at hand.  Numbers decode from integers; any other T from
\* any value that is present.
SerdeFromV8Ok(ty, v) ==
  IF ty \in {<<"u32">>, <<"usize">>, <<"serde_v8", "::", "BigInt">>}
  THEN v.kind = "integer"
  ELSE v.kind # "undefined"

\* ------------------------------------------------------------------------
\* Execution of the generated argument blocks (src/ops/lib.rs 391-580)
\* ------------------------------------------------------------------------

\* What the decode block of `instr` does with value v: "ok", or the message
\* of the type error it throws before returning.  A view whose val is
\* negative is one whose view.buffer(scope) is None.
DecodeArg(instr, v) ==
  CASE instr.kind \in {"none", "unit", "option_string"} -> "ok"
    [] instr.kind \in {"string", "cow_str"} ->
         IF v.kind = "string" THEN "ok" ELSE "Expected string at position"
    [] instr.kind \in {"u8_slice", "u8_ptr"} ->
         IF v.kind = "ArrayBuffer" THEN "ok"
         ELSE IF v.kind \in {"ArrayBufferView", "Uint32Array"}
         THEN (IF v.val >= 0 THEN "ok" ELSE "Expected ArrayBufferView at position")
         ELSE "Expected ArrayBufferView at position"
    [] instr.kind = "u32_mut_slice" ->
         IF v.kind = "Uint32Array"
         THEN (IF v.val >= 0 THEN "ok" ELSE "Expected Uint32Array at position")
         ELSE "Expected Uint32Array at position"
    [] OTHER ->
         IF SerdeFromV8Ok(instr.ty, v) THEN "ok"
         ELSE "Error parsing args at position"

\* What a decode block binds to arg_i.  A slice is the pair from_raw_parts_mut
\* gets: ptr is the distance in bytes from the backing store's base, elems
\* the number of elements, width the bytes of one element.  `&mut []` has
\* ptr -1: it points into no buffer.
Bound(b, ptr, elems, width) ==
  [b |-> b, ptr |-> ptr, elems |-> elems, width |-> width]

EmptySlice(width) == Bound("slice", -1, 0, width)

\* Variant of codegen_u8_slice: the view's slice taken from the store's base
codegen_u8_slice_no_offset(v) ==
  IF v.kind = "ArrayBuffer"
  THEN (IF v.data THEN Bound("slice", 0, v.size, 1) ELSE EmptySlice(1))
  ELSE (IF v.data THEN Bound("slice", 0, v.len, 1) ELSE EmptySlice(1))

\* src/ops/lib.rs 486-523
codegen_u8_slice(v) ==
  IF v.kind = "ArrayBuffer"
  THEN (IF v.data THEN Bound("slice", 0, v.size, 1) ELSE EmptySlice(1))
  ELSE (IF v.data THEN Bound("slice", v.offset, v.len, 1) ELSE EmptySlice(1))

\* src/ops/lib.rs 559-580
codegen_u32_mut_slice(v) ==
  IF v.data THEN Bound("slice", v.offset, v.len \div 4, 4) ELSE EmptySlice(4)

\* src/ops/lib.rs 525-557: a null pointer has ptr -1 (and store.add(offset)
\* of a null store keeps it outside every buffer)
codegen_u8_ptr(v) ==
  IF ~v.data THEN Bound("ptr", -1, 0, 1)
  ELSE IF v.kind = "ArrayBuffer" THEN Bound("ptr", 0, 0, 1)
  ELSE Bound("ptr", v.offset, 0, 1)

\* The value of arg_i after a decode block that did not throw
BindArg(instr, v) ==
  CASE instr.kind = "none" -> Bound("None", 0, 0, 0)
    [] instr.kind = "unit" -> Bound("unit", 0, 0, 0)
    [] instr.kind = "string" ->
         Bound(IF instr.flag THEN "&str" ELSE "String", 0, 0, 0)
    [] instr.kind = "cow_str" -> Bound("Cow::Owned", 0, 0, 0)
    [] instr.kind = "option_string" ->
         Bound(IF v.kind = "string" THEN "Some(String)" ELSE "None", 0, 0, 0)
    [] instr.kind = "u8_slice" -> codegen_u8_slice(v)
    [] instr.kind = "u32_mut_slice" -> codegen_u32_mut_slice(v)
    [] instr.kind = "u8_ptr" -> codegen_u8_ptr(v)
    [] OTHER -> Bound("value", 0, 0, 0)

\* ------------------------------------------------------------------------
\* Execution of a generated v8_func body
\* ------------------------------------------------------------------------

\* The frame of one v8_func invocation.  st is ctx.state; queued holds the
\* future handed to queue_async_op, if any.
Frame(st) ==
  [events |-> <<>>, thrown |-> NoThrow, rv |-> "unset", st |-> st,
   result |-> NoResult, promise_id |-> 0, get_class |-> "-",
   queued |-> <<>>, returned |-> FALSE, bound |-> <<>>]

Throw(x, evs, exc) ==
  [x EXCEPT !.events = @ \o evs, !.thrown = exc, !.returned = TRUE]

\* Variant of ExecFastErrorHandler: the error read without being taken
ExecFastErrorHandlerKeep(x) ==
  LET err == x.st.last_fast_op_error
  IN  IF err # None
      THEN Throw(x,
                 <<Ev("take_last_fast_op_error", 0), Ev("throw_exception", 0)>>,
                 Exception(err, x.st.get_error_class_fn))
      ELSE [x EXCEPT !.events = Append(@, Ev("take_last_fast_op_error", 0))]

\* src/ops/lib.rs 327-340
ExecFastErrorHandler(x) ==
  LET err == x.st.last_fast_op_error
  IN  IF err # None
      THEN Throw([x EXCEPT !.st.last_fast_op_error = None],
                 <<Ev("take_last_fast_op_error", 0), Ev("throw_exception", 0)>>,
                 Exception(err, x.st.get_error_class_fn))
      ELSE [x EXCEPT !.events = Append(@, Ev("take_last_fast_op_error", 0))]

\* Variant of ExecPromiseId: the type error thrown without the return
ExecPromiseIdNoReturn(x, args) ==
  LET v == ArgGet(args, 0)
  IN  IF v.kind = "integer"
      THEN [x EXCEPT !.promise_id = v.val,
                     !.events = Append(@, Ev("promise_id", 0))]
      ELSE [x EXCEPT !.thrown = TypeError("invalid promise id", 0),
                     !.events = Append(@, Ev("throw_type_error", 0))]

\* src/ops/lib.rs 244-255
ExecPromiseId(x, args) ==
  LET v == ArgGet(args, 0)
  IN  IF v.kind = "integer"
      THEN [x EXCEPT !.promise_id = v.val,
                     !.events = Append(@, Ev("promise_id", 0))]
      ELSE Throw(x, <<Ev("throw_type_error", 0)>>,
                 TypeError("invalid promise id", 0))

\* Variant of ExecDecode: the type error thrown without the return
ExecDecodeNoReturn(x, instr, args) ==
  LET r == DecodeArg(instr, ArgGet(args, instr.idx))
  IN  IF r = "ok"
      THEN [x EXCEPT !.events = Append(@, Ev("decode", instr.idx)),
                     !.bound = Append(@, BindArg(instr, ArgGet(args, instr.idx)))]
      ELSE [x EXCEPT !.thrown = TypeError(r, instr.idx),
                     !.events = Append(@, Ev("throw_type_error", instr.idx))]

\* The decode block of one argument (src/ops/lib.rs 391-484)
ExecDecode(x, instr, args) ==
  LET r == DecodeArg(instr, ArgGet(args, instr.idx))
  IN  IF r = "ok"
      THEN [x EXCEPT !.events = Append(@, Ev("decode", instr.idx)),
                     !.bound = Append(@, BindArg(instr, ArgGet(args, instr.idx)))]
      ELSE Throw(x, <<Ev("throw_type_error", instr.idx)>>, TypeError(r, instr.idx))

\* src/ops/lib.rs 353 and 212: Self::call(args_head, args_tail)
ExecCall(x, native) ==
  [x EXCEPT !.result = native, !.events = Append(@, Ev("call", 0))]

\* Variant of ExecTrackSync: a failed native call is not counted
ExecTrackSyncOkOnly(x, ctx) ==
  IF x.result.tag = "Err" THEN x
  ELSE [x EXCEPT !.st.tracker_sync[ctx.id] = @ + 1,
                 !.events = Append(@, Ev("track_sync", ctx.id))]

\* src/ops/lib.rs 356-357
ExecTrackSync(x, ctx) ==
  [x EXCEPT !.st.tracker_sync[ctx.id] = @ + 1,
            !.events = Append(@, Ev("track_sync", ctx.id))]

\* src/ops/lib.rs 260-264
ExecTrackAsync(x, ctx) ==
  [x EXCEPT !.st.tracker_async[ctx.id] = @ + 1,
            !.get_class = x.st.get_error_class_fn,
            !.events = Append(@, Ev("track_async", ctx.id))]

\* The ok_block of codegen_sync_ret (src/ops/lib.rs 597-613)
ExecOkBlock(x, kind, ser_ok) ==
  CASE kind = "nothing" -> x
    [] kind = "set_uint32" ->
         [x EXCEPT !.rv = "uint32", !.events = Append(@, Ev("set_uint32", 0))]
    [] OTHER ->
         IF ser_ok
         THEN [x EXCEPT !.rv = "value",
                        !.events = @ \o <<Ev("to_v8", 0), Ev("set", 0)>>]
         ELSE [x EXCEPT !.thrown = TypeError("Error serializing return", 0),
                        !.events = @ \o <<Ev("to_v8", 0), Ev("throw_type_error", 0)>>]

\* The block codegen_sync_ret emitted (src/ops/lib.rs 615-629)
ExecRet(x, instr, ser_ok) ==
  IF instr.flag /\ x.result.tag = "Err"
  THEN [x EXCEPT !.thrown = Exception(x.result.err, x.st.get_error_class_fn),
                 !.events = Append(@, Ev("throw_exception", 0))]
  ELSE ExecOkBlock(x, instr.kind, ser_ok)

\* src/ops/lib.rs 267-271: the async block captures promise_id, op_id,
\* get_class and, for a non-async fn, the value the call returned.
ExecQueueAsyncOp(x, instr, ctx) ==
  [x EXCEPT !.queued = <<[promise_id |-> x.promise_id,
                          op_id |-> ctx.id,
                          get_class |-> x.get_class,
                          block |-> ctx.decl.async_block,
                          early |-> x.result,
                          deferred |-> instr.flag]>>,
            !.events = Append(@, Ev("queue_async_op", 0))]

Step(x, instr, ctx, in) ==
  CASE instr.op = "fast_error_handler" -> ExecFastErrorHandler(x)
    [] instr.op = "promise_id" -> ExecPromiseId(x, in.args)
    [] instr.op = "decode" -> ExecDecode(x, instr, in.args)
    [] instr.op = "call" -> ExecCall(x, in.native)
    [] instr.op = "track_sync" -> ExecTrackSync(x, ctx)
    [] instr.op = "track_async" -> ExecTrackAsync(x, ctx)
    [] instr.op = "ret" -> ExecRet(x, instr, in.ser_ok)
    [] OTHER -> ExecQueueAsyncOp(x, instr, ctx)

\* The statements of the body in order; a `return` ends the entry point
RECURSIVE ExecBody(_, _, _, _)
ExecBody(body, x, ctx, in) ==
  IF body = <<>> \/ x.returned THEN x
  ELSE ExecBody(Tail(body), Step(x, Head(body), ctx, in), ctx, in)

\* v8_func(scope, args, rv) of op `id`
V8Func(id, decl, st, in) ==
  ExecBody(decl.v8_func, Frame(st), [id |-> id, decl |-> decl], in)

\* ------------------------------------------------------------------------
\* The async block once polled to completion (src/ops/lib.rs 206-232,
\* 267-271): the triple it yields.  outcome is what the awaited future
\* resolves to.
\* ------------------------------------------------------------------------

\* Variant of AsyncBlockResult: the future awaited whatever the call returned
AsyncBlockResultAwaitAlways(fut, outcome) ==
  CASE fut.block.wrapper = "ok_wrap" -> Ok
    [] OTHER -> outcome

AsyncBlockResult(fut, outcome) ==
  CASE fut.block.wrapper = "match_early_err" ->
         IF fut.early.tag = "Err" THEN fut.early ELSE outcome
    [] fut.block.wrapper = "ok_wrap" -> Ok
    [] OTHER -> outcome

\* Variant of AsyncBlockTriple: the early failure reported without the
\* promise id of the call
AsyncBlockTripleEarlyNoPid(fut, outcome) ==
  <<IF fut.block.wrapper = "match_early_err" /\ fut.early.tag = "Err"
    THEN 0 ELSE fut.promise_id,
    fut.op_id,
    to_op_result(fut.get_class, AsyncBlockResult(fut, outcome))>>

AsyncBlockTriple(fut, outcome) ==
  <<fut.promise_id, fut.op_id,
    to_op_result(fut.get_class, AsyncBlockResult(fut, outcome))>>

\* ------------------------------------------------------------------------
\* Bounds
\* ------------------------------------------------------------------------

\* Generic invocations that reach their telemetry call, over all ops
MaxCalls == 2

\* Parameters of a function handed to the generator
MaxParams == 2

\* ------------------------------------------------------------------------
\* The ops registered with the runtime
\* ------------------------------------------------------------------------

NoAttrs == Attrs(FALSE, FALSE, FALSE)

Registry ==
  << ItemFn("op_a", <<Param("a", T_u32)>>, R_Result_u32, FALSE, NoAttrs),
     ItemFn("op_b", <<Param("state", T_OpState), Param("s", T_String),
                      Param("b", T_u8_slice)>>,
            R_Result_unit, FALSE, NoAttrs),
     ItemFn("op_c", <<Param("o", T_OptString)>>,
            R_u32, FALSE, NoAttrs),
     ItemFn("op_d", <<Param("n", T_BigInt)>>, R_Result_String, FALSE, NoAttrs),
     ItemFn("op_e", <<Param("state", T_RcOpState), Param("s", T_String)>>,
            R_Result_u32, TRUE, Attrs(FALSE, FALSE, TRUE)),
     ItemFn("op_f", <<Param("b", T_u8_slice)>>, R_Result_Future, FALSE, NoAttrs) >>

OpIds == 1..Len(Registry)

\* The code generated for each registered op; ctx.id is its index
Decls == [i \in OpIds |-> Gen(Registry[i])]

Errs == {"e1", "e2"}

PromiseIds == {1, 2}

\* What a caller may pass as argument i of an entry point
PidValues ==
  {Undefined, V8("string", 0)} \cup {V8("integer", p) : p \in PromiseIds}

ArgValues ==
  {V8("string", 0), V8("integer", 1), Buf(1, TRUE)}

\* The argument vectors of a call: argc values, preceded by the promise id
\* for an async op
ArgVectors(decl) ==
  LET n == decl.argc + (IF decl.is_async THEN 1 ELSE 0)
  IN  {a \in [1..n -> PidValues \cup ArgValues] :
         \A i \in 1..n :
           IF decl.is_async /\ i = 1 THEN a[i] \in PidValues
           ELSE a[i] \in ArgValues}

\* What Self::call can return to the entry point
NativeOutcomes(op) ==
  IF op.asyncness THEN {NoResult}
  ELSE IF is_future(op.output) THEN {Ok, Err("e1")}
  ELSE IF is_result(op.output) THEN {Ok} \cup {Err(e) : e \in Errs}
  ELSE {Ok}

\* Whether serde_v8::to_v8 of the return value succeeds
SerOutcomes(decl) ==
  IF \E i \in 1..Len(decl.v8_func) :
       decl.v8_func[i].op = "ret" /\ decl.v8_func[i].kind = "to_v8"
  THEN BOOLEAN ELSE {TRUE}

\* What the future awaited inside the async block resolves to
FutureOutcomes(fut) ==
  IF fut.block.wrapper = "ok_wrap" THEN {Ok}
  ELSE IF fut.block.wrapper = "match_early_err" /\ fut.early.tag = "Err"
  THEN {NoResult}
  ELSE {Ok, Err("e2")}

\* ------------------------------------------------------------------------
\* State
\* ------------------------------------------------------------------------

InitOpState ==
  [last_fast_op_error |-> None,
   tracker_sync |-> [i \in OpIds |-> 0],
   tracker_async |-> [i \in OpIds |-> 0],
   get_error_class_fn |-> "get_error_class_name"]

NoArgs == <<>>

NoCall ==
  [entry |-> "none", op |-> 0, args |-> NoArgs, native |-> NoResult,
   events |-> <<>>, thrown |-> NoThrow, rv |-> "unset",
   queued |-> <<>>, pre |-> InitOpState, bound |-> <<>>]

RECURSIVE SumTo(_, _)
SumTo(f, n) == IF n = 0 THEN 0 ELSE f[n] + SumTo(f, n - 1)

Tracked(st) ==
  SumTo(st.tracker_sync, Len(Registry)) + SumTo(st.tracker_async, Len(Registry))

\* The runtime after its ops were generated and registered
Init ==
  /\ func = None
  /\ generated = <<>>
  /\ op_state = InitOpState
  /\ pending = <<>>
  /\ delivered = <<>>
  /\ last = NoCall
  /\ rustyline_channel

\* ------------------------------------------------------------------------
\* Operations
\* ------------------------------------------------------------------------

\* The host calls the generic entry point of op `id`
Invoke(id, args, native, ser_ok) ==
  \E x \in {V8Func(id, Decls[id], op_state,
                   [args |-> args, native |-> native, ser_ok |-> ser_ok])} :
    /\ op_state' = x.st
    /\ pending' = pending \o x.queued
    /\ last' = [entry |-> IF Decls[id].is_async THEN "async" ELSE "sync",
                op |-> id, args |-> args, native |-> x.result,
                events |-> x.events, thrown |-> x.thrown, rv |-> x.rv,
                queued |-> x.queued, pre |-> op_state, bound |-> x.bound]
    /\ UNCHANGED <<func, generated, delivered, replVars>>

CallSync ==
  \E id \in OpIds :
    /\ ~Decls[id].is_async
    /\ Tracked(op_state) < MaxCalls
    /\ \E args \in ArgVectors(Decls[id]), native \in NativeOutcomes(Registry[id]),
          ser_ok \in SerOutcomes(Decls[id]) :
         Invoke(id, args, native, ser_ok)

CallAsync ==
  \E id \in OpIds :
    /\ Decls[id].is_async
    /\ Tracked(op_state) < MaxCalls
    /\ \E args \in ArgVectors(Decls[id]), native \in NativeOutcomes(Registry[id]) :
         Invoke(id, args, native, TRUE)

\* The host calls the fast entry point of a sync op (section 4.3): a failed
\* call of a fallible op stores its error in the single slot.
FastCall ==
  \E id \in OpIds :
    /\ Decls[id].fast_fn # None
    /\ ~Decls[id].is_async
    /\ \E native \in NativeOutcomes(Registry[id]) :
         /\ op_state' =
              IF Decls[id].returns_result /\ native.tag = "Err"
              THEN [op_state EXCEPT !.last_fast_op_error = native.err]
              ELSE op_state
         /\ last' = [entry |-> "fast", op |-> id, args |-> NoArgs,
                     native |-> native, events |-> <<Ev("call", 0)>>,
                     thrown |-> NoThrow, rv |-> "unset", queued |-> <<>>,
                     pre |-> op_state, bound |-> <<>>]
         /\ UNCHANGED <<func, generated, pending, delivered, replVars>>

\* A queued async block runs to completion and its triple is delivered
\* (queue_async_op, section 4.4)
PollFuture ==
  \E i \in 1..Len(pending) :
    \E outcome \in FutureOutcomes(pending[i]) :
      /\ delivered' = Append(delivered, AsyncBlockTriple(pending[i], outcome))
      /\ pending' = SubSeq(pending, 1, i - 1) \o SubSeq(pending, i + 1, Len(pending))
      /\ UNCHANGED <<func, generated, op_state, last, replVars>>

Next == CallSync \/ CallAsync \/ FastCall \/ PollFuture

Spec == Init /\ [][Next]_vars

\* ------------------------------------------------------------------------
\* Generation: #[op] applied to one function (src/ops/lib.rs 174-180)
\* ------------------------------------------------------------------------

ParamChoices ==
  { Param("a", T_u32), Param("s", T_String), Param("r", T_str),
    Param("c", T_Cow), Param("o", T_OptString), Param("b", T_u8_slice),
    Param("w", T_u32_slice_mut), Param("p", T_ptr_u8),
    Param("state", T_OpState), Param("state", T_RcOpState),
    Param("scope", T_Scope), Param("n", T_BigInt), WildParam(T_u32) }

ReturnChoices ==
  { R_void, R_u32, R_String, R_ResourceId, R_CoreResourceId, R_Result_unit,
    R_Result_u32, R_Result_ResourceId, R_Result_String, R_IoResult_String,
    R_Future, R_Result_Future }

AttrChoices ==
  { NoAttrs, Attrs(TRUE, FALSE, FALSE), Attrs(FALSE, TRUE, TRUE) }

\* Parameter lists of up to MaxParams parameters
ParamLists ==
  UNION { [1..n -> ParamChoices] : n \in 0..MaxParams }

Functions ==
  { ItemFn("op_x", inputs, output, asyncness, attrs) :
      inputs \in ParamLists, output \in ReturnChoices,
      asyncness \in BOOLEAN, attrs \in AttrChoices }

InitGen ==
  /\ func \in Functions
  /\ generated = <<>>
  /\ op_state = InitOpState
  /\ pending = <<>>
  /\ delivered = <<>>
  /\ last = NoCall
  /\ rustyline_channel

\* op(attr, item): Op::new(func, margs).gen()
GenOp ==
  /\ generated = <<>>
  /\ generated' = <<Gen(func)>>
  /\ UNCHANGED <<func, op_state, pending, delivered, last, replVars>>

NextGen == GenOp

SpecGen == InitGen /\ [][NextGen]_vars

\* ------------------------------------------------------------------------
\* Helpers of the properties
\* ------------------------------------------------------------------------

IsGeneric == last.entry \in {"sync", "async"}

\* The body starts with the deferred-error check
HasFastErrorHandler(decl) ==
  \E i \in 1..Len(decl.v8_func) : decl.v8_func[i].op = "fast_error_handler"

\* Positions of the events named `name`
EvPositions(events, name) == {i \in 1..Len(events) : events[i].ev = name}

CountEv(events, name) == Cardinality(EvPositions(events, name))

\* The decode blocks of a body
DecodeInstrs(decl) ==
  {decl.v8_func[i] : i \in {j \in 1..Len(decl.v8_func) : decl.v8_func[j].op = "decode"}}

\* The js indexes at which the arguments of the last call do not decode
FailingArgs ==
  {d.idx : d \in {e \in DecodeInstrs(Decls[last.op]) :
                    DecodeArg(e, ArgGet(last.args, e.idx)) # "ok"}}

\* The last generic call was stopped by a stored fast-path error
PreEmpted ==
  /\ last.entry = "sync"
  /\ HasFastErrorHandler(Decls[last.op])
  /\ last.pre.last_fast_op_error # None

\* The last async call carried a valid promise id
ValidPromiseId == ArgGet(last.args, 0).kind = "integer"

\* Nothing of the runtime changed but the error slot
NoTelemetry ==
  /\ op_state.tracker_sync = last.pre.tracker_sync
  /\ op_state.tracker_async = last.pre.tracker_async

\* ------------------------------------------------------------------------
\* Properties
\* ------------------------------------------------------------------------

\* C1: a generic call made while the error slot holds a deferred fast-path
\* error raises exactly that error, whichever op it invokes, and a fast
\* call never replaces an error that is still waiting in the slot.
C1_DeferredErrorNeverLost ==
  /\ (IsGeneric /\ last.pre.last_fast_op_error # None)
       => last.thrown = Exception(last.pre.last_fast_op_error,
                                  last.pre.get_error_class_fn)
  /\ (last.entry = "fast" /\ last.pre.last_fast_op_error # None)
       => op_state.last_fast_op_error = last.pre.last_fast_op_error

\* C2: a sync entry point generated with the deferred-error check, called
\* with the slot non-empty, takes the error and throws it and does nothing
\* else (no decode, no native call, no telemetry); the slot is empty after
\* it, and with an empty slot the check throws nothing.
C2_DeferredErrorCheckFirst ==
  /\ PreEmpted =>
       /\ last.events = <<Ev("take_last_fast_op_error", 0), Ev("throw_exception", 0)>>
       /\ last.thrown = Exception(last.pre.last_fast_op_error,
                                  last.pre.get_error_class_fn)
       /\ last.rv = "unset"
       /\ last.native = NoResult
       /\ NoTelemetry
       /\ op_state.last_fast_op_error = None
  /\ (last.entry = "sync" /\ HasFastErrorHandler(Decls[last.op])
        /\ last.pre.last_fast_op_error = None) =>
       /\ last.events[1] = Ev("take_last_fast_op_error", 0)
       /\ CountEv(last.events, "throw_exception") > 0
            => CountEv(last.events, "call") = 1
       /\ op_state.last_fast_op_error = None

C2_Witness ==
  /\ PreEmpted
  /\ last.op = 1
  /\ last.args = <<V8("integer", 1)>>
  /\ last.thrown.err = "e2"

\* C4: when an argument of a generic call does not decode, the entry point
\* throws the type error of the first such argument and the call does not
\* happen: no native call, no telemetry, nothing queued, no return value.
C4_DecodeFailureStopsCall ==
  (IsGeneric /\ ~PreEmpted /\ FailingArgs # {}
     /\ (last.entry = "async" => ValidPromiseId)) =>
    LET first == CHOOSE i \in FailingArgs : \A j \in FailingArgs : i <= j
    IN  /\ last.thrown.kind = "TypeError"
        /\ last.thrown.pos = first
        /\ last.events[Len(last.events)] = Ev("throw_type_error", first)
        /\ CountEv(last.events, "throw_type_error") = 1
        /\ CountEv(last.events, "call") = 0
        /\ CountEv(last.events, "track_sync") = 0
        /\ CountEv(last.events, "track_async") = 0
        /\ CountEv(last.events, "queue_async_op") = 0
        /\ last.native = NoResult
        /\ last.queued = <<>>
        /\ last.rv = "unset"
        /\ NoTelemetry

\* A later argument fails after an earlier one decoded
C4_Witness ==
  /\ last.entry = "sync"
  /\ last.op = 2
  /\ FailingArgs = {1}
  /\ CountEv(last.events, "decode") = 1

\* C5: a sync generic call whose arguments all decode and that no deferred
\* error stops calls the native function once, then records one sync
\* telemetry event for its op id, then encodes the return; it does so for
\* a native success and for a native failure.
C5_SyncCallOnceTrackOnce ==
  (last.entry = "sync" /\ ~PreEmpted /\ FailingArgs = {}) =>
    LET decoded == EvPositions(last.events, "decode")
        call == EvPositions(last.events, "call")
        track == EvPositions(last.events, "track_sync")
        encode == {i \in 1..Len(last.events) :
                     last.events[i].ev \in
                       {"set_uint32", "to_v8", "set", "throw_exception",
                        "throw_type_error"}}
    IN  /\ Cardinality(call) = 1
        /\ Cardinality(track) = 1
        /\ \A t \in track : last.events[t] = Ev("track_sync", last.op)
        /\ \A d \in decoded, c \in call : d < c
        /\ \A c \in call, t \in track : c < t
        /\ \A t \in track, e \in encode : t < e
        /\ op_state.tracker_sync =
             [last.pre.tracker_sync EXCEPT ![last.op] = @ + 1]
        /\ op_state.tracker_async = last.pre.tracker_async

C5_Witness ==
  /\ last.entry = "sync"
  /\ ~PreEmpted
  /\ FailingArgs = {}
  /\ last.native.tag = "Err"
  /\ op_state.tracker_sync[last.op] = 2

\* Entries of the delivery pipeline (queued or delivered) with promise id p
PidCount(p) ==
  Cardinality({i \in 1..Len(pending) : pending[i].promise_id = p})
    + Cardinality({i \in 1..Len(delivered) : delivered[i][1] = p})

\* Entries of the delivery pipeline that name op o
OpCount(o) ==
  Cardinality({i \in 1..Len(pending) : pending[i].op_id = o})
    + Cardinality({i \in 1..Len(delivered) : delivered[i][2] = o})

\* s without its i-th element
RemoveAt(s, i) == SubSeq(s, 1, i - 1) \o SubSeq(s, i + 1, Len(s))

\* A validated async call queues one block that carries the caller's promise
\* id and the op id of its context; every tracked async call has exactly one
\* entry in the pipeline.
C6_Queued ==
  /\ (last.entry = "async" /\ ValidPromiseId /\ FailingArgs = {}) =>
       /\ Len(last.queued) = 1
       /\ last.queued[1].promise_id = ArgGet(last.args, 0).val
       /\ last.queued[1].op_id = last.op
       /\ last.queued[1].early = last.native
  /\ (IsGeneric /\ ~(last.entry = "async" /\ ValidPromiseId /\ FailingArgs = {}))
       => last.queued = <<>>
  /\ \A o \in OpIds : OpCount(o) = op_state.tracker_async[o]

\* A delivery appends the triple of one queued block: its promise id, its op
\* id, and its result (a failed result with the early error when the native
\* function failed before producing the future).  The number of entries with
\* promise id p grows only by a call that was issued with p.
C6_Step ==
  /\ delivered' # delivered =>
       \E i \in 1..Len(pending) :
         /\ pending' = RemoveAt(pending, i)
         /\ Len(delivered') = Len(delivered) + 1
         /\ SubSeq(delivered', 1, Len(delivered)) = delivered
         /\ LET t == delivered'[Len(delivered')]
                fut == pending[i]
            IN  /\ t[1] = fut.promise_id
                /\ t[2] = fut.op_id
                /\ t[3].tag \in {"Ok", "Err"}
                /\ (fut.block.wrapper = "match_early_err" /\ fut.early.tag = "Err")
                     => t[3] = [tag |-> "Err", err |-> fut.early.err,
                                class |-> fut.get_class]
  /\ \A p \in PromiseIds :
       PidCount(p)' =
         PidCount(p)
           + (IF Len(pending') > Len(pending) /\ ArgGet(last'.args, 0).val = p
              THEN 1 ELSE 0)

\* C6: the completion triple of an async call reports the promise id it was
\* called with and the op id of its context on every path, and each
\* validated async call yields exactly one completion, so two deliveries
\* share a promise id only when the caller issued it twice.
C6_CompletionTriple == [](C6_Queued) /\ [][C6_Step]_vars

\* An early failure of op 6 was delivered under the promise id it was called
\* with, after a completion of op 5
C6_Witness ==
  /\ Len(delivered) = 2
  /\ delivered[1][2] = 5
  /\ delivered[2] = <<2, 6, [tag |-> "Err", err |-> "e1",
                            class |-> "get_error_class_name"]>>
  /\ delivered[1][1] = 2

\* C7: an async generic call whose argument 0 is not an integer throws the
\* type error "invalid promise id" and does nothing else.
C7_InvalidPromiseId ==
  (last.entry = "async" /\ ~ValidPromiseId) =>
    /\ last.thrown = TypeError("invalid promise id", 0)
    /\ last.events = <<Ev("throw_type_error", 0)>>
    /\ last.native = NoResult
    /\ last.queued = <<>>
    /\ last.rv = "unset"
    /\ NoTelemetry
    /\ op_state = last.pre

C7_Witness ==
  /\ last.entry = "async"
  /\ last.op = 6
  /\ last.args = <<V8("string", 0), Buf(1, TRUE)>>

\* The return category of a declared return type, read off the declaration
RetOkType(t) ==
  LET commas == {i \in 1..Len(t) : t[i] = ","}
      k == CHOOSE i \in commas : \A j \in commas : i <= j
  IN  SubSeq(t, 3, k - 1)

IsSmallUnsigned(t) ==
  t \in {<<"u32">>, <<"u8">>, <<"u16">>, <<"ResourceId">>,
         <<"deno_core", "::", "ResourceId">>}

RetCategory(output) ==
  IF output = <<>> THEN "void"
  ELSE LET t == Tail(output)
       IN  IF IsSmallUnsigned(t) THEN "u32"
           ELSE IF Len(t) >= 2 /\ t[1] = "Result" /\ t[2] = "<"
           THEN (IF RetOkType(t) = <<"()">> THEN "result_unit"
                 ELSE IF IsSmallUnsigned(RetOkType(t)) THEN "result_u32"
                 ELSE "result_other")
           ELSE "other"

\* The events of the last call after its telemetry event
AfterTrack ==
  LET t == CHOOSE i \in EvPositions(last.events, "track_sync") : TRUE
  IN  SubSeq(last.events, t + 1, Len(last.events))

\* C8: the return of a sync op is marshaled by the category of its declared
\* return type: nothing for void, a direct uint32 for u32/u8/u16/ResourceId,
\* for a Result the same on Ok by the category of its Ok type and a thrown
\* exception on Err, the generic encode for every other type; on Err no
\* return value is set.
C8_ReturnByCategory ==
  (last.entry = "sync" /\ CountEv(last.events, "track_sync") = 1) =>
    LET cat == RetCategory(Registry[last.op].output)
        failed == last.native.tag = "Err"
        nothing == AfterTrack = <<>> /\ last.rv = "unset" /\ last.thrown = NoThrow
        direct == AfterTrack = <<Ev("set_uint32", 0)>> /\ last.rv = "uint32"
                    /\ last.thrown = NoThrow
        generic == \/ AfterTrack = <<Ev("to_v8", 0), Ev("set", 0)>>
                      /\ last.rv = "value" /\ last.thrown = NoThrow
                   \/ AfterTrack = <<Ev("to_v8", 0), Ev("throw_type_error", 0)>>
                      /\ last.rv = "unset"
                      /\ last.thrown = TypeError("Error serializing return", 0)
        raised == AfterTrack = <<Ev("throw_exception", 0)>> /\ last.rv = "unset"
                    /\ last.thrown = Exception(last.native.err,
                                               last.pre.get_error_class_fn)
    IN  CASE cat = "void" -> nothing
          [] cat = "u32" -> direct
          [] cat = "result_unit" -> IF failed THEN raised ELSE nothing
          [] cat = "result_u32" -> IF failed THEN raised ELSE direct
          [] cat = "result_other" -> IF failed THEN raised ELSE generic
          [] OTHER -> generic

\* C9: "Error serializing return" is thrown only after the native function
\* was called once and its sync telemetry event recorded; it replaces the
\* delivery of the result and leaves the call and its telemetry in place.
C9_SerializeErrorAfterCall ==
  (IsGeneric /\ last.thrown.msg = "Error serializing return") =>
    /\ last.entry = "sync"
    /\ last.thrown = TypeError("Error serializing return", 0)
    /\ CountEv(last.events, "call") = 1
    /\ CountEv(last.events, "track_sync") = 1
    /\ \A c \in EvPositions(last.events, "call"),
          t \in EvPositions(last.events, "track_sync"),
          e \in EvPositions(last.events, "to_v8") : c < t /\ t < e
    /\ last.events[Len(last.events)] = Ev("throw_type_error", 0)
    /\ last.native = Ok
    /\ last.rv = "unset"
    /\ op_state.tracker_sync = [last.pre.tracker_sync EXCEPT ![last.op] = @ + 1]

C9_Witness ==
  /\ last.entry = "sync"
  /\ last.op = 4
  /\ last.thrown.msg = "Error serializing return"
  /\ op_state.tracker_sync[4] = 1

\* ------------------------------------------------------------------------
\* Properties of the generation
\* ------------------------------------------------------------------------

IsScopeHandle(p) ==
  p.ty \in {<<"&", "mut", "v8", "::", "HandleScope">>,
            <<"&", "mut", "deno_core", "::", "v8", "::", "HandleScope">>}

IsStateHandle(p) ==
  p.ty \in {<<"&", "mut", "OpState">>,
            <<"Rc", "<", "RefCell", "<", "OpState", ">", ">">>}

\* Length of the leading run of parameters that are scope or state handles
RECURSIVE LeadingHandles(_)
LeadingHandles(inputs) ==
  IF inputs = <<>> \/ ~(IsScopeHandle(Head(inputs)) \/ IsStateHandle(Head(inputs)))
  THEN 0
  ELSE 1 + LeadingHandles(Tail(inputs))

\* The same run when a scope handle counts only for an op with is_v8
RECURSIVE LeadingSpecials(_, _)
LeadingSpecials(inputs, is_v8) ==
  IF inputs = <<>> THEN 0
  ELSE IF (is_v8 /\ IsScopeHandle(Head(inputs))) \/ IsStateHandle(Head(inputs))
  THEN 1 + LeadingSpecials(Tail(inputs), is_v8)
  ELSE 0

\* C3 (as claimed): for every signature and attribute set, argc is the
\* number of parameters minus the leading scope and state handle parameters.
C3_ArityMinusLeadingHandles ==
  generated # <<>> =>
    generated[1].argc = Len(func.inputs) - LeadingHandles(func.inputs)

\* C3 (amended): argc is the number of parameters minus the leading special
\* parameters, where a scope handle is special only when is_v8 is set; for
\* sync and async ops, with or without a fast entry.
C3_ArityMinusLeadingSpecials ==
  generated # <<>> =>
    generated[1].argc =
      Len(func.inputs) - LeadingSpecials(func.inputs, func.attrs.is_v8)

\* fn(scope, state) of an async op with is_v8 and no fast entry: arity 0
C3_Witness ==
  /\ generated # <<>>
  /\ Len(func.inputs) = 2
  /\ IsScopeHandle(func.inputs[1])
  /\ IsStateHandle(func.inputs[2])
  /\ func.attrs.is_v8
  /\ generated[1].is_async
  /\ generated[1].fast_fn = None
  /\ generated[1].argc = 0

\* Some parameter type is multi-segment or has no fast-path form
Bails(op) ==
  \E i \in 1..Len(op.inputs) :
    \/ IsMultiSegment(op.inputs[i].ty)
    \/ FastUnsupported(op.inputs[i].ty)

MaxWords == 2

ByteRange == 0..(4 * MaxWords)

\* ArrayBuffers with a backing store, and a detached one
BufValues == {Buf(n, TRUE) : n \in ByteRange} \cup {Buf(0, FALSE)}

\* Views as the host reports them: any byte_offset and byte_length over a
\* backing store of any size (word views at word granularity), a view of a
\* detached buffer, and a view whose buffer(scope) is None
ViewValues ==
  {View("ArrayBufferView", n, o, l, TRUE) : n \in ByteRange, o \in ByteRange, l \in ByteRange}
    \cup {v \in {View("Uint32Array", n, o, l, TRUE) :
                   n \in ByteRange, o \in ByteRange, l \in ByteRange} :
            v.offset % 4 = 0 /\ v.len % 4 = 0}
    \cup {View(k, 0, 0, 0, FALSE) : k \in {"ArrayBufferView", "Uint32Array"}}
    \cup {[View(k, 4, 0, 4, TRUE) EXCEPT !.val = -1] :
            k \in {"ArrayBufferView", "Uint32Array"}}

PlainValues == {Undefined, V8("string", 0), V8("integer", 1)}

DecodeTypes ==
  { T_u32, T_String, T_str, T_Cow, T_OptString, T_u8_slice, T_u8_slice_mut,
    T_u32_slice_mut, T_ptr_u8, T_BigInt, T_OptWasm, T_OptFast }

DecodeParams ==
  {Param("a", ty) : ty \in DecodeTypes} \cup {WildParam(ty) : ty \in DecodeTypes}

\* One positional parameter p: alone, after a state handle or after another
\* positional parameter; sync or async
DecodeFunctions ==
  {ItemFn("op_x", <<p>>, R_Result_u32, asyncness, NoAttrs) :
     p \in DecodeParams, asyncness \in BOOLEAN}
    \cup {ItemFn("op_x", <<Param("state", T_OpState), p>>, R_Result_u32, FALSE, NoAttrs) :
            p \in DecodeParams}
    \cup {ItemFn("op_x", <<Param("state", T_RcOpState), p>>, R_Result_u32, TRUE, NoAttrs) :
            p \in DecodeParams}
    \cup {ItemFn("op_x", <<Param("n", T_u32), p>>, R_Result_u32, asyncness, NoAttrs) :
            p \in DecodeParams, asyncness \in BOOLEAN}

\* The argument vector of a call of decl that passes v last: the promise id
\* of an async op, an integer for every earlier positional parameter, v
ArgsEndingIn(decl, v) ==
  (IF decl.is_async THEN <<V8("integer", 1)>> ELSE <<>>)
    \o [i \in 1..(decl.argc - 1) |-> V8("integer", 1)]
    \o <<v>>

\* The values tried at the position of parameter p: every buffer and view
\* for a slice or pointer parameter, one of each kind otherwise
ValuesFor(p) ==
  IF p.ty \in {T_u8_slice, T_u8_slice_mut, T_u32_slice_mut, T_ptr_u8}
  THEN PlainValues \cup BufValues \cup ViewValues
  ELSE PlainValues \cup {Buf(1, TRUE), View("ArrayBufferView", 1, 0, 1, TRUE)}

InitDecode ==
  /\ func \in DecodeFunctions
  /\ generated = <<>>
  /\ op_state = InitOpState
  /\ pending = <<>>
  /\ delivered = <<>>
  /\ last = NoCall
  /\ rustyline_channel

\* The host calls the generic entry point of the generated op (ctx.id 1)
CallGenerated ==
  /\ generated # <<>>
  /\ last = NoCall
  /\ \E v \in ValuesFor(func.inputs[Len(func.inputs)]) :
       \E x \in {V8Func(1, generated[1], op_state,
                        [args |-> ArgsEndingIn(generated[1], v),
                         native |-> IF func.asyncness THEN NoResult ELSE Ok,
                         ser_ok |-> TRUE])} :
         /\ op_state' = x.st
         /\ pending' = pending \o x.queued
         /\ last' = [entry |-> IF generated[1].is_async THEN "async" ELSE "sync",
                     op |-> 1,
                     args |-> ArgsEndingIn(generated[1], v),
                     native |-> x.result,
                     events |-> x.events, thrown |-> x.thrown, rv |-> x.rv,
                     queued |-> x.queued, pre |-> op_state, bound |-> x.bound]
         /\ UNCHANGED <<func, generated, delivered, replVars>>

NextDecode == GenOp \/ CallGenerated

SpecDecode == InitDecode /\ [][NextDecode]_vars

\* The positional parameter of the function, the value passed for it and
\* what the entry point bound to it
TheParam == func.inputs[Len(func.inputs)]

TheValue == last.args[Len(last.args)]

TheBound == last.bound[Len(last.bound)]

\* The call decoded its last argument without throwing
Decoded ==
  /\ last.entry # "none"
  /\ Len(last.bound) = generated[1].argc

IsView(v) == v.kind \in {"ArrayBufferView", "Uint32Array"}

\* C11: a byte-slice parameter over a plain buffer of length L is bound to
\* L bytes from the buffer's base; over a view (O, Len) to Len bytes from
\* base + O; a word-slice parameter over a word view to Len / 4 words from
\* base + O; and the bytes of the slice all lie in [O, O + Len).
C11_SliceViewExact ==
  (Decoded /\ TheParam.pat = "Ident") =>
    /\ (TheParam.ty \in {T_u8_slice, T_u8_slice_mut} /\ TheValue.kind = "ArrayBuffer") =>
         /\ TheBound.b = "slice" /\ TheBound.width = 1
         /\ TheBound.elems = TheValue.size
         /\ TheValue.data => TheBound.ptr = 0
    /\ (TheParam.ty \in {T_u8_slice, T_u8_slice_mut} /\ IsView(TheValue)) =>
         /\ TheBound.b = "slice" /\ TheBound.width = 1
         /\ TheBound.elems = TheValue.len
         /\ TheValue.data => TheBound.ptr = TheValue.offset
    /\ (TheParam.ty = T_u32_slice_mut /\ TheValue.kind = "Uint32Array") =>
         /\ TheBound.b = "slice" /\ TheBound.width = 4
         /\ TheBound.elems * 4 = TheValue.len
         /\ TheValue.data => TheBound.ptr = TheValue.offset
    /\ (TheBound.b = "slice" /\ TheBound.elems > 0) =>
         /\ TheBound.ptr >= TheValue.offset
         /\ TheBound.ptr + TheBound.elems * TheBound.width
              <= TheValue.offset + TheValue.len

\* An async op's `&[u8]` over bytes 2..5 of an 8-byte store
C11_Witness ==
  /\ Decoded
  /\ last.entry = "async"
  /\ TheParam = Param("a", T_u8_slice)
  /\ TheValue = View("ArrayBufferView", 8, 2, 3, TRUE)
  /\ TheBound = Bound("slice", 2, 3, 1)

\* The runtime index of the positional parameter: its index among the
\* parameters that are not state handles, plus one for an async op
RuntimeIndex ==
  Cardinality({i \in 1..(Len(func.inputs) - 1) : ~IsStateHandle(func.inputs[i])})
    + (IF func.asyncness THEN 1 ELSE 0)

Called == last.entry # "none"

\* C12 (as claimed): a String, &str, Cow<str> or Option<String> parameter
\* given a value that is not a string makes the entry point throw the type
\* error "Expected string at position N", N its runtime index.
C12_StringKindsThrow ==
  (Called /\ TheParam.pat = "Ident"
     /\ TheParam.ty \in {T_String, T_str, T_Cow, T_OptString}
     /\ TheValue.kind # "string") =>
    last.thrown = TypeError("Expected string at position", RuntimeIndex)

\* C12 (amended): a String, &str or Cow<str> parameter given a value that is
\* not a string makes the entry point throw "Expected string at position N",
\* N its runtime index, before the native call and the telemetry; an
\* Option<String> parameter given such a value is bound to None and nothing
\* is thrown.
C12_StringsThrowOptionIsNone ==
  (Called /\ TheParam.pat = "Ident" /\ TheValue.kind # "string") =>
    /\ TheParam.ty \in {T_String, T_str, T_Cow} =>
         /\ last.thrown = TypeError("Expected string at position", RuntimeIndex)
         /\ last.events[Len(last.events)] = Ev("throw_type_error", RuntimeIndex)
         /\ CountEv(last.events, "call") = 0
         /\ op_state = last.pre
         /\ last.queued = <<>>
    /\ TheParam.ty = T_OptString =>
         /\ last.thrown = NoThrow
         /\ Decoded
         /\ TheBound = Bound("None", 0, 0, 0)

\* An async op's Cow<str>, second positional parameter, given an integer
C12_Witness ==
  /\ Called
  /\ func.asyncness
  /\ func.inputs = <<Param("n", T_u32), Param("a", T_Cow)>>
  /\ TheValue = V8("integer", 1)
  /\ last.thrown = TypeError("Expected string at position", 2)

\* ------------------------------------------------------------------------
\* Async ops while the embedder replaces the error classifier
\* ------------------------------------------------------------------------

\* Values of OpState::get_error_class_fn
ClassFns == {"get_error_class_name", "custom_error_class_name"}

\* The embedder installs another error-classification function
SetErrorClassFn ==
  /\ \E c \in ClassFns \ {op_state.get_error_class_fn} :
       op_state' = [op_state EXCEPT !.get_error_class_fn = c]
  /\ UNCHANGED <<func, generated, pending, delivered, last, replVars>>

NextAsync == CallAsync \/ PollFuture \/ SetErrorClassFn

SpecAsync == Init /\ [][NextAsync]_vars

\* Position of the only event `name` of the last call (0 if there is none)
PosOf(name) ==
  IF CountEv(last.events, name) = 1
  THEN CHOOSE i \in 1..Len(last.events) : last.events[i].ev = name
  ELSE 0

\* An async call that threw did nothing observable but throw; one that did
\* not throw validated the promise id first, decoded its arguments, then
\* recorded one async-call event and captured the classifier then in force,
\* and only after that called the native function (an `async fn` is called
\* inside the queued block) and queued the block, which carries the captured
\* classifier.
C13_Schedule ==
  last.entry = "async" =>
    IF last.thrown # NoThrow
    THEN /\ CountEv(last.events, "track_async") = 0
         /\ CountEv(last.events, "call") = 0
         /\ last.queued = <<>>
    ELSE /\ CountEv(last.events, "track_async") = 1
         /\ CountEv(last.events, "promise_id") = 1
         /\ CountEv(last.events, "queue_async_op") = 1
         /\ PosOf("promise_id") = 1
         /\ PosOf("queue_async_op") = Len(last.events)
         /\ \A i \in 1..Len(last.events) :
              /\ i < PosOf("track_async") =>
                   last.events[i].ev \in {"promise_id", "decode"}
              /\ i > PosOf("track_async") =>
                   last.events[i].ev \in {"call", "queue_async_op"}
         /\ CountEv(last.events, "decode") = Decls[last.op].argc
         /\ CountEv(last.events, "call") =
              (IF Registry[last.op].asyncness THEN 0 ELSE 1)
         /\ op_state.tracker_async[last.op] = last.pre.tracker_async[last.op] + 1
         /\ Len(last.queued) = 1
         /\ last.queued[1].get_class = last.pre.get_error_class_fn

\* A delivered failure is classified by the classifier its block captured
C13_Deliver ==
  delivered' # delivered =>
    \E i \in 1..Len(pending) :
      /\ pending' = RemoveAt(pending, i)
      /\ LET t == delivered'[Len(delivered')]
         IN  t[3].tag = "Err" => t[3].class = pending[i].get_class

\* C13: in an async generic invocation the order is promise id, argument
\* decoding, one async-call telemetry event together with the capture of the
\* error classifier, then the native call or the queueing of its future;
\* the result is encoded with the classifier captured at schedule time.
C13_TrackBeforeInvoke == [](C13_Schedule) /\ [][C13_Deliver]_vars

\* A failure was delivered under the classifier captured when it was
\* scheduled, after the embedder installed another one
C13_Witness ==
  /\ delivered # <<>>
  /\ delivered[1][3].tag = "Err"
  /\ delivered[1][3].class = "get_error_class_name"
  /\ op_state.get_error_class_fn = "custom_error_class_name"

\* The blocks of ops declared `fn ... -> Result<impl Future, E>`
EarlyFallible(fut) == fut.block.wrapper = "match_early_err"

\* One block is queued by a call of such an op that did not throw, holding
\* what the native function returned
C14_Queued ==
  (last.entry = "async" /\ last.thrown = NoThrow
     /\ ~Registry[last.op].asyncness /\ is_result(Registry[last.op].output)) =>
    /\ Len(last.queued) = 1
    /\ EarlyFallible(last.queued[1])
    /\ last.queued[1].early = last.native
    /\ last.native.tag \in {"Ok", "Err"}

\* The block of such an op yields one triple with the promise id and op id
\* of the call: the early error, classified, when the native function
\* returned Err (nothing is awaited: the result owes nothing to a future);
\* the awaited future's result when it returned Ok(fut).
C14_Deliver ==
  delivered' # delivered =>
    \E i \in 1..Len(pending) :
      /\ pending' = RemoveAt(pending, i)
      /\ Len(delivered') = Len(delivered) + 1
      /\ EarlyFallible(pending[i]) =>
           LET t == delivered'[Len(delivered')]
               fut == pending[i]
           IN  /\ t[1] = fut.promise_id
               /\ t[2] = fut.op_id
               /\ IF fut.early.tag = "Err"
                  THEN t[3] = [tag |-> "Err", err |-> fut.early.err,
                               class |-> fut.get_class]
                  ELSE t[3] \in {to_op_result(fut.get_class, o) :
                                   o \in {Ok, Err("e2")}}

\* C14: a non-async op returning Result<impl Future, E>: an early Err is
\* delivered as a failed result under the call's promise id and op id
\* without awaiting anything; Ok(fut) is awaited and its result delivered;
\* either way one triple per call.
C14_EarlyErrShortCircuits ==
  /\ [](C14_Queued /\ \A o \in OpIds : OpCount(o) = op_state.tracker_async[o])
  /\ [][C14_Deliver]_vars

\* Op 6 was called twice under promise ids 1 and 2: the first call failed
\* early, the second returned a future that failed when awaited
C14_Witness ==
  /\ Len(delivered) = 2
  /\ \E a, b \in 1..2 :
       /\ delivered[a][1] = 1 /\ delivered[a][2] = 6
       /\ delivered[a][3].tag = "Err" /\ delivered[a][3].err = "e1"
       /\ delivered[b][1] = 2 /\ delivered[b][2] = 6
       /\ delivered[b][3].tag = "Err" /\ delivered[b][3].err = "e2"

\* The host's report is coherent: the view lies within its backing store
Coherent(v) == v.offset + v.len <= v.size

\* C15: for every reported (buffer size, byte_offset, byte_length), a slice
\* bound over a buffer or view with a backing store lies entirely inside the
\* store, [0, size); without a backing store the slice is empty.
C15_ViewInsideBuffer ==
  (Decoded /\ TheBound.b = "slice") =>
    IF TheValue.data
    THEN /\ TheBound.ptr >= 0
         /\ TheBound.ptr + TheBound.elems * TheBound.width <= TheValue.size
    ELSE TheBound.elems = 0

\* What does hold: a slice over a coherent report lies inside the store
C15_InsideWhenCoherent ==
  (Decoded /\ TheBound.b = "slice" /\ Coherent(TheValue)) =>
    IF TheValue.data
    THEN /\ TheBound.ptr >= 0
         /\ TheBound.ptr + TheBound.elems * TheBound.width <= TheValue.size
    ELSE TheBound.elems = 0

\* C16: the special arguments bound by the glue are exactly the leading run
\* of special parameters (a scope handle only with is_v8); every parameter
\* from the first non-special one on, special-typed or not, is counted in
\* argc and has its own decode block at the next runtime index, and a
\* special-typed one is decoded there as a generic value.
C16_LeadingRunOnly ==
  generated # <<>> =>
    LET d == generated[1]
        k == LeadingSpecials(func.inputs, func.attrs.is_v8)
        n == Len(func.inputs) - k
        shift == IF d.is_async THEN 1 ELSE 0
    IN  /\ Len(d.args_head) = k
        /\ d.argc = n
        /\ Cardinality(DecodeInstrs(d)) = n
        /\ \A j \in 1..n :
             \E instr \in DecodeInstrs(d) :
               /\ instr.idx = shift + j - 1
               /\ instr.ty = func.inputs[k + j].ty
               /\ (func.inputs[k + j].pat = "Ident"
                     /\ (IsScopeHandle(func.inputs[k + j])
                           \/ IsStateHandle(func.inputs[k + j])))
                    => instr.kind = "serde_v8"

\* fn(a: u32, state: &mut OpState): nothing is bound by the glue, arity 2
C16_Witness ==
  /\ generated # <<>>
  /\ func.inputs = <<Param("a", T_u32), Param("state", T_OpState)>>
  /\ ~func.asyncness
  /\ generated[1].args_head = <<>>
  /\ generated[1].argc = 2
  /\ \E instr \in DecodeInstrs(generated[1]) :
       instr.idx = 1 /\ instr.kind = "serde_v8" /\ instr.ty = T_OpState

\* The marshaling kind of a parameter by the order wildcard, owned or
\* borrowed string, copy-on-write string, optional string, byte or word
\* slice, raw byte pointer, generic value decode
KindByOrder(p) ==
  IF p.pat = "Wild" THEN "unit"
  ELSE IF p.ty \in {T_String, T_str} THEN "string"
  ELSE IF p.ty = T_Cow THEN "cow_str"
  ELSE IF p.ty = T_OptString THEN "option_string"
  ELSE IF p.ty \in {T_u8_slice, T_u8_slice_mut} THEN "u8_slice"
  ELSE IF p.ty = T_u32_slice_mut THEN "u32_mut_slice"
  ELSE IF p.ty = T_ptr_u8 THEN "u8_ptr"
  ELSE "serde_v8"

\* The same order behind a first test for the optional fast-call options
\* and optional wasm memory parameters, which are bound to None
KindByOrderAfterOptional(p) ==
  IF p.ty \in {T_OptFast, T_OptWasm} THEN "none" ELSE KindByOrder(p)

\* The decode blocks generated for the positional parameter under test
BlocksOfTheParam ==
  {instr \in DecodeInstrs(generated[1]) : instr.idx = RuntimeIndex}

\* C17 (as claimed): every positional parameter gets exactly one marshaling
\* kind, the first match in the order wildcard, owned/borrowed string,
\* copy-on-write string, optional string, byte/word slice, raw byte
\* pointer, generic value decode.
C17_FirstMatchInOrder ==
  generated # <<>> =>
    /\ Cardinality(BlocksOfTheParam) = 1
    /\ \A instr \in BlocksOfTheParam : instr.kind = KindByOrder(TheParam)

\* C17 (amended): every positional parameter gets exactly one marshaling
\* kind, the first match in the order: optional fast-call options or
\* optional wasm memory (bound to None), wildcard, owned/borrowed string,
\* copy-on-write string, optional string, byte/word slice, raw byte
\* pointer, generic value decode; the borrowed string is marked as a
\* reference; a call with a value of the kind's shape decodes it.
C17_FirstMatchAfterOptional ==
  /\ generated # <<>> =>
       /\ Cardinality(BlocksOfTheParam) = 1
       /\ Cardinality(DecodeInstrs(generated[1])) = generated[1].argc
       /\ \A instr \in BlocksOfTheParam :
            /\ instr.kind = KindByOrderAfterOptional(TheParam)
            /\ instr.ty = TheParam.ty
            /\ instr.flag = (instr.kind = "string" /\ TheParam.ty = T_str)
  /\ (Called /\ KindByOrderAfterOptional(TheParam) \in {"none", "unit"}) =>
       /\ Decoded
       /\ TheBound.b = (IF TheParam.ty \in {T_OptFast, T_OptWasm}
                        THEN "None" ELSE "unit")

\* `_: Option<&mut [u8]>` is bound to None, not to the unit of a wildcard
C17_Witness ==
  /\ Called
  /\ TheParam = WildParam(T_OptWasm)
  /\ TheValue = Undefined
  /\ TheBound = Bound("None", 0, 0, 0)

\* ------------------------------------------------------------------------
\* The REPL sync/async bridge (src/cli/tools/repl/channel.rs)
\* ------------------------------------------------------------------------

\* Calls made on the RustylineSyncMessageSender
MaxRequests == 3

\* What a method returns when blocking_send fails
SendErrValue(kind) ==
  CASE kind = "PostMessage" -> "Err(anyhow)"
    [] kind = "EvaluateExpression" -> "None"
    [] OTHER -> "Vec::new()"

\* A method is entered and builds its message; the call is numbered
Enter(kind) ==
  /\ sender.pc = "idle"
  /\ sender.calls < MaxRequests
  /\ sender' = [sender EXCEPT !.pc = "send", !.calls = @ + 1,
                              !.req = [kind |-> kind, id |-> sender.calls + 1]]
  /\ UNCHANGED <<message_rx, response_rx, handler, opVars>>

\* channel.rs 65-78: serde_json::to_value(params) may fail, and `?` returns
\* the error before anything is sent
post_message ==
  \/ Enter("PostMessage")
  \/ /\ sender.pc = "idle"
     /\ sender.calls < MaxRequests
     /\ sender' = [sender EXCEPT
                     !.calls = @ + 1,
                     !.req = [kind |-> "PostMessage", id |-> sender.calls + 1],
                     !.ret = [how |-> "to_value_err", kind |-> "PostMessage",
                              id |-> sender.calls + 1, value |-> "Err(serde)"]]
     /\ UNCHANGED <<message_rx, response_rx, handler, opVars>>

evaluate_expression == Enter("EvaluateExpression")

get_global_lexical_scope_names == Enter("GetGlobalLexicalScopeNames")

lsp_completions == Enter("LspCompletions")

\* message_tx.blocking_send(msg): an error once the receiver is gone, else
\* the message is queued as soon as the channel(1) has room
BlockingSend ==
  /\ sender.pc = "send"
  /\ IF ~handler.alive
     THEN /\ sender' = [sender EXCEPT
                          !.pc = "idle",
                          !.ret = [how |-> "send_err", kind |-> sender.req.kind,
                                   id |-> sender.req.id,
                                   value |-> SendErrValue(sender.req.kind)]]
          /\ UNCHANGED message_rx
     ELSE /\ Len(message_rx) < 1
          /\ message_rx' = Append(message_rx, sender.req)
          /\ sender' = [sender EXCEPT !.pc = "recv"]
  /\ UNCHANGED <<response_rx, handler, opVars>>

\* Variant of BlockingRecv: the response read without being taken
BlockingRecvPeek ==
  /\ sender.pc = "recv"
  /\ IF response_rx # <<>>
     THEN /\ UNCHANGED response_rx
          /\ sender' =
               IF Head(response_rx).kind = sender.req.kind
               THEN [sender EXCEPT
                       !.pc = "idle",
                       !.ret = [how |-> "response", kind |-> Head(response_rx).kind,
                                id |-> Head(response_rx).id, value |-> "payload"]]
               ELSE [sender EXCEPT !.pc = "unreachable"]
     ELSE /\ ~handler.alive
          /\ sender' = [sender EXCEPT !.pc = "panicked"]
          /\ UNCHANGED response_rx
  /\ UNCHANGED <<message_rx, handler, opVars>>

\* response_rx.borrow_mut().blocking_recv().unwrap() and the match on the
\* variant: a queued response is taken; with none queued the call waits
\* while a response_tx lives and gets None, which unwrap() panics on, once
\* it is gone
BlockingRecv ==
  /\ sender.pc = "recv"
  /\ IF response_rx # <<>>
     THEN /\ response_rx' = Tail(response_rx)
          /\ sender' =
               IF Head(response_rx).kind = sender.req.kind
               THEN [sender EXCEPT
                       !.pc = "idle",
                       !.ret = [how |-> "response", kind |-> Head(response_rx).kind,
                                id |-> Head(response_rx).id, value |-> "payload"]]
               ELSE [sender EXCEPT !.pc = "unreachable"]
     ELSE /\ ~handler.alive
          /\ sender' = [sender EXCEPT !.pc = "panicked"]
          /\ UNCHANGED response_rx
  /\ UNCHANGED <<message_rx, handler, opVars>>

\* RustylineSyncMessageHandler::recv: the owner takes the next message
recv ==
  /\ handler.alive
  /\ handler.current = NoMessage
  /\ message_rx # <<>>
  /\ handler' = [handler EXCEPT !.current = Head(message_rx)]
  /\ message_rx' = Tail(message_rx)
  /\ UNCHANGED <<response_rx, sender, opVars>>

\* The response the handler's owner builds for a message: the variant of the
\* message
ResponseTo(msg) == [kind |-> msg.kind, id |-> msg.id]

\* RustylineSyncMessageHandler::send: the owner answers the message it took
send ==
  /\ handler.alive
  /\ handler.current # NoMessage
  /\ response_rx' = Append(response_rx, ResponseTo(handler.current))
  /\ handler' = [handler EXCEPT !.current = NoMessage]
  /\ UNCHANGED <<message_rx, sender, opVars>>

\* The handler is dropped: message_rx and response_tx go with it, and the
\* messages still queued are dropped with the receiver
DropHandler ==
  /\ handler.alive
  /\ handler' = [alive |-> FALSE, current |-> NoMessage]
  /\ message_rx' = <<>>
  /\ UNCHANGED <<response_rx, sender, opVars>>

InitRepl ==
  /\ func = None
  /\ generated = <<>>
  /\ op_state = InitOpState
  /\ pending = <<>>
  /\ delivered = <<>>
  /\ last = NoCall
  /\ rustyline_channel

NextRepl ==
  \/ post_message
  \/ evaluate_expression
  \/ get_global_lexical_scope_names
  \/ lsp_completions
  \/ BlockingSend
  \/ BlockingRecv
  \/ recv
  \/ send

\* The bridge with a handler that lives on and answers every message
SpecRepl == InitRepl /\ [][NextRepl]_vars

\* The bridge with a handler that may be dropped at any moment
SpecReplDrop == InitRepl /\ [][NextRepl \/ DropHandler]_vars

\* Requests accepted and not yet answered to the caller
InFlight ==
  Len(message_rx) + (IF handler.current # NoMessage THEN 1 ELSE 0)
    + Len(response_rx)

\* C18: with a handler that answers each message once with the matching
\* variant, a sender call that returns a response returns the one to its own
\* request, and a call returns nothing else but the to_value error of
\* post_message, made before anything is sent; at most one request is in
\* flight, and only while the caller waits for it; the response queue is
\* empty when a call begins and after it returns; neither the
\* variant-mismatch branch nor the unwrap of a missing response is reached.
C18_OwnResponse ==
  /\ sender.pc \notin {"unreachable", "panicked"}
  /\ InFlight = (IF sender.pc = "recv" THEN 1 ELSE 0)
  /\ sender.pc \in {"idle", "send"} => response_rx = <<>>
  /\ (sender.pc = "idle" /\ sender.calls > 0) =>
       /\ sender.req.id = sender.calls
       /\ sender.ret.id = sender.req.id
       /\ sender.ret.kind = sender.req.kind
       /\ \/ sender.ret.how = "response"
          \/ sender.ret.how = "to_value_err" /\ sender.req.kind = "PostMessage"

\* The third call, lsp_completions, returned the response to request 3
C18_Witness ==
  /\ sender.pc = "idle"
  /\ sender.calls = 3
  /\ sender.req = [kind |-> "LspCompletions", id |-> 3]
  /\ sender.ret = [how |-> "response", kind |-> "LspCompletions", id |-> 3,
                   value |-> "payload"]

\* C19: once the handler is gone no sender call panics, and a call that
\* ends without a response gives the method's failure value: post_message
\* Err, evaluate_expression None, the other two an empty list.
C19_GracefulWhenHandlerGone ==
  ~handler.alive =>
    /\ sender.pc # "panicked"
    /\ (sender.pc = "idle" /\ sender.ret.how = "send_err") =>
         sender.ret.value = SendErrValue(sender.req.kind)
====
